---- MODULE Spec2Model ----
(***************************************************************************)
(* Semji-clone SEO analysis tool: the App component of src/src/App.tsx and *)
(* the proxy server of src/server.js.                                      *)
(*                                                                         *)
(* The model holds the eight React state cells of App, the axios request   *)
(* in flight, the pending 2000 ms timers of performSerpAnalysis, and a few *)
(* history variables.  JavaScript strings are sequences of one-character   *)
(* strings, so that length, trim, toLowerCase, includes, split and the     *)
(* RegExp built from the keyword are computed, not assumed.                *)
(***************************************************************************)
EXTENDS Integers, Sequences, FiniteSets, TLC

VARIABLES
    url,                  \* useState('')            App.tsx:41 (a URL text)
    keyword,              \* useState('')            App.tsx:42 (sequence of characters)
    parsedContent,        \* useState(null)          App.tsx:43 (<<>> is null; else <<page>>,
                          \*   standing for ParsedData(page))
    error,                \* useState(null)          App.tsx:44 (NoError is null)
    seoSuggestions,       \* useState([])            App.tsx:45
    isLoading,            \* useState(false)         App.tsx:46
    completedSuggestions, \* useState(0)             App.tsx:47
    serpResults,          \* useState(null)          App.tsx:48 (<<>> is null)
    pending,              \* the axios.get awaited at App.tsx:199 (<<>> when none)
    serpTimers,           \* the setTimeout promises awaited at App.tsx:155, oldest first
    requestCount,         \* history: number of fetchAndParseContent calls so far
    lastRequest,          \* history: the keyword captured by the latest call
    serpOwner,            \* history: the call whose snapshot serpResults holds (0: none)
    allowedOrigins,       \* const allowedOrigins    server.js:67
    req,                  \* the request the proxy received last (<<>>: none yet)
    res,                  \* the response sent to it (<<>>: not sent yet)
    upstream              \* the axios.get awaited at server.js:342 (<<>> when none)

appVars == <<url, keyword, parsedContent, error, seoSuggestions, isLoading,
             completedSuggestions, serpResults, pending, serpTimers,
             requestCount, lastRequest, serpOwner>>

proxyVars == <<allowedOrigins, req, res, upstream>>

vars == <<url, keyword, parsedContent, error, seoSuggestions, isLoading,
          completedSuggestions, serpResults, pending, serpTimers,
          requestCount, lastRequest, serpOwner,
          allowedOrigins, req, res, upstream>>

-----------------------------------------------------------------------------
(* Bounds of the model *)

MaxRequests == 2   \* analyses started in one behaviour
MaxH1 == 2         \* h1 elements of an enumerated page
MaxLinks == 3      \* anchors of an enumerated page
MaxHits == 2       \* keyword occurrences written into an enumerated body

(* Program constants *)

TitleMinLength == 30
TitleMaxLength == 60
DescriptionMinLength == 120
DescriptionMaxLength == 160
MinLinks == 2
MinContentLength == 300
DensityMinTenths == 5     \* 0.5 (percent)
DensityMaxTenths == 25    \* 2.5 (percent)

-----------------------------------------------------------------------------
(* JavaScript string primitives *)

UpperLetters == <<"A", "B", "C", "D", "E", "F", "G", "H", "I", "J", "K", "L", "M",
                  "N", "O", "P", "Q", "R", "S", "T", "U", "V", "W", "X", "Y", "Z">>
LowerLetters == <<"a", "b", "c", "d", "e", "f", "g", "h", "i", "j", "k", "l", "m",
                  "n", "o", "p", "q", "r", "s", "t", "u", "v", "w", "x", "y", "z">>

LowerOf ==
    [c \in {UpperLetters[i] : i \in 1..Len(UpperLetters)} |->
        LowerLetters[CHOOSE i \in 1..Len(UpperLetters) : UpperLetters[i] = c]]

LowerChar(c) == IF c \in DOMAIN LowerOf THEN LowerOf[c] ELSE c

\* String.prototype.toLowerCase
toLowerCase(s) == [i \in 1..Len(s) |-> LowerChar(s[i])]

\* String.prototype.includes
includes(s, sub) ==
    \E i \in 0..(Len(s) - Len(sub)) : SubSeq(s, i + 1, i + Len(sub)) = sub

\* the characters \s matches and trim() removes, among those of the model
IsSpace(c) == c = " "

SetMin(S) == CHOOSE x \in S : \A y \in S : x <= y
SetMax(S) == CHOOSE x \in S : \A y \in S : x >= y

\* String.prototype.trim
trim(s) ==
    LET solid == {i \in 1..Len(s) : ~IsSpace(s[i])}
    IN  IF solid = {} THEN <<>> ELSE SubSeq(s, SetMin(solid), SetMax(solid))

\* s.split(/\s+/).length: one more than the number of maximal whitespace runs
\* (so "" splits into [""], and leading or trailing whitespace adds an empty token)
splitLength(s) ==
    Cardinality({i \in 1..Len(s) : IsSpace(s[i]) /\ (i = 1 \/ ~IsSpace(s[i - 1]))}) + 1

-----------------------------------------------------------------------------
(* new RegExp(keyword, 'gi') and String.prototype.match, for patterns over   *)
(* letters, spaces, the wildcard "." and the group opener "(".               *)
(* The model's alphabet has no ")" and no "\", so a pattern holding "(" is   *)
(* an unterminated group: the constructor throws a SyntaxError.              *)

RegExpThrows(pattern) == \E i \in 1..Len(pattern) : pattern[i] = "("

\* one pattern character against one text character, under the i flag
AtomMatches(p, c) == IF p = "." THEN TRUE ELSE LowerChar(p) = LowerChar(c)

MatchesAt(s, i, pattern) ==
    /\ i + Len(pattern) - 1 <= Len(s)
    /\ \A j \in 1..Len(pattern) : AtomMatches(pattern[j], s[i + j - 1])

\* (s.match(regex) || []).length under the g flag: leftmost matches, each
\* search resuming after the previous match (one further on after an empty one)
RECURSIVE matchCountFrom(_, _, _)
matchCountFrom(s, pattern, i) ==
    LET hits == {j \in i..(Len(s) + 1) : MatchesAt(s, j, pattern)}
    IN  IF hits = {} THEN 0
        ELSE 1 + matchCountFrom(s, pattern,
                     SetMin(hits) + (IF Len(pattern) = 0 THEN 1 ELSE Len(pattern)))

\* matches no longer than one character cannot overlap: every matching position
\* is a match (the empty pattern matches at each of the Len(s) + 1 positions)
matchCount(s, pattern) ==
    IF Len(pattern) <= 1
    THEN Cardinality({j \in 1..(Len(s) + 1) : MatchesAt(s, j, pattern)})
    ELSE matchCountFrom(s, pattern, 1)

-----------------------------------------------------------------------------
(* generateSeoSuggestions *)

\* one suggestion: its title and the values its description interpolates
Suggestion(title, kw, n, pct) == [title |-> title, keyword |-> kw, n |-> n, pct |-> pct]

TitleLengthRule(parsedData) ==
    IF Len(parsedData.title) < TitleMinLength \/ Len(parsedData.title) > TitleMaxLength
    THEN <<Suggestion("Optimize title length", <<>>, Len(parsedData.title), 0)>>
    ELSE <<>>

KeywordInTitleRule(parsedData, kw) ==
    IF kw # <<>> /\ ~includes(toLowerCase(parsedData.title), toLowerCase(kw))
    THEN <<Suggestion("Include focus keyword in title", kw, 0, 0)>>
    ELSE <<>>

DescriptionLengthRule(parsedData) ==
    IF \/ Len(parsedData.metaDescription) < DescriptionMinLength
       \/ Len(parsedData.metaDescription) > DescriptionMaxLength
    THEN <<Suggestion("Optimize meta description length", <<>>,
                      Len(parsedData.metaDescription), 0)>>
    ELSE <<>>

KeywordInDescriptionRule(parsedData, kw) ==
    IF kw # <<>> /\ ~includes(toLowerCase(parsedData.metaDescription), toLowerCase(kw))
    THEN <<Suggestion("Include focus keyword in meta description", kw, 0, 0)>>
    ELSE <<>>

H1Rule(parsedData, kw) ==
    IF Len(parsedData.h1Tags) = 0
    THEN <<Suggestion("Add an H1 tag", <<>>, 0, 0)>>
    ELSE IF Len(parsedData.h1Tags) > 1
    THEN <<Suggestion("Use only one H1 tag per page", <<>>, 0, 0)>>
    ELSE IF kw # <<>> /\ ~includes(toLowerCase(parsedData.h1Tags[1]), toLowerCase(kw))
    THEN <<Suggestion("Include focus keyword in H1 tag", kw, 0, 0)>>
    ELSE <<>>

LinkRule(parsedData) ==
    IF Len(parsedData.links) < MinLinks
    THEN <<Suggestion("Add more internal or external links", <<>>, 0, 0)>>
    ELSE <<>>

ContentLengthRule(parsedData) ==
    IF Len(parsedData.content) < MinContentLength
    THEN <<Suggestion("Increase content length", <<>>, 0, 0)>>
    ELSE <<>>

keywordCount(parsedData, kw) == matchCount(parsedData.content, kw)

wordCount(parsedData) == splitLength(parsedData.content)

\* keywordDensity.toFixed(2), in hundredths of a percent
densityFixed2(count, words) == (20000 * count + words) \div (2 * words)

\* keywordDensity = (keywordCount / wordCount) * 100 against 0.5 and 2.5;
\* wordCount is at least 1, so the comparisons are those of exact fractions
DensityRule(parsedData, kw) ==
    LET count == keywordCount(parsedData, kw)
        words == wordCount(parsedData)
    IN  IF 1000 * count < DensityMinTenths * words
        THEN <<Suggestion("Increase keyword density", kw, count,
                          densityFixed2(count, words))>>
        ELSE IF 1000 * count > DensityMaxTenths * words
        THEN <<Suggestion("Decrease keyword density", kw, count,
                          densityFixed2(count, words))>>
        ELSE <<>>

\* the same, with the link rule evaluated ahead of the H1 rule
generateSeoSuggestions_Reordered(parsedData, kw) ==
    IF RegExpThrows(kw)
    THEN [threw |-> TRUE, suggestions |-> <<>>]
    ELSE [threw |-> FALSE,
          suggestions |-> TitleLengthRule(parsedData)
                          \o KeywordInTitleRule(parsedData, kw)
                          \o DescriptionLengthRule(parsedData)
                          \o KeywordInDescriptionRule(parsedData, kw)
                          \o LinkRule(parsedData)
                          \o H1Rule(parsedData, kw)
                          \o ContentLengthRule(parsedData)
                          \o DensityRule(parsedData, kw)]

\* the whole function: either new RegExp throws (nothing is stored), or the
\* formatted suggestions are handed to setSeoSuggestions
generateSeoSuggestions(parsedData, kw) ==
    IF RegExpThrows(kw)
    THEN [threw |-> TRUE, suggestions |-> <<>>]
    ELSE [threw |-> FALSE,
          suggestions |-> TitleLengthRule(parsedData)
                          \o KeywordInTitleRule(parsedData, kw)
                          \o DescriptionLengthRule(parsedData)
                          \o KeywordInDescriptionRule(parsedData, kw)
                          \o H1Rule(parsedData, kw)
                          \o LinkRule(parsedData)
                          \o ContentLengthRule(parsedData)
                          \o DensityRule(parsedData, kw)]

-----------------------------------------------------------------------------
(* Input validation of fetchAndParseContent *)

\* an error message: its text, and the status and CORS hint it interpolates
ErrorMessage(text, status, hint) == [text |-> text, status |-> status, corsHint |-> hint]

\* error === null
NoError == ErrorMessage("null", 0, FALSE)

IsLetter(c) == \E i \in 1..Len(LowerLetters) : LowerLetters[i] = LowerChar(c)

\* the scheme new URL(url) finds: the letters before the first ":" (<<>>: none)
SchemeOf(u) ==
    LET t == trim(u)
        colons == {i \in 1..Len(t) : t[i] = ":"}
    IN  IF colons = {} THEN <<>>
        ELSE LET c == SetMin(colons)
             IN  IF c > 1 /\ \A i \in 1..(c - 1) : IsLetter(t[i])
                 THEN toLowerCase(SubSeq(t, 1, c - 1))
                 ELSE <<>>

\* new URL(url) succeeds: a scheme, and a host after it
UrlParses(u) ==
    LET t == trim(u)
    IN  /\ SchemeOf(u) # <<>>
        /\ \E i \in (Len(SchemeOf(u)) + 2)..Len(t) : t[i] # "/"

\* InputError without the protocol test of lines 194-196
InputError_AnyScheme(u, kw) ==
    IF trim(u) = <<>>
    THEN ErrorMessage("Please enter a URL", 0, FALSE)
    ELSE IF trim(kw) = <<>>
    THEN ErrorMessage("Please enter a keyword for analysis", 0, FALSE)
    ELSE IF ~UrlParses(u)
    THEN ErrorMessage("Invalid URL format. Please enter a valid URL including the protocol (http:// or https://)", 0, FALSE)
    ELSE NoError

\* the Error thrown before the request is sent, if any, as the catch block
\* reports it (err.message; none of these messages contains "cors")
InputError(u, kw) ==
    IF trim(u) = <<>>
    THEN ErrorMessage("Please enter a URL", 0, FALSE)
    ELSE IF trim(kw) = <<>>
    THEN ErrorMessage("Please enter a keyword for analysis", 0, FALSE)
    ELSE IF ~UrlParses(u)
    THEN ErrorMessage("Invalid URL format. Please enter a valid URL including the protocol (http:// or https://)", 0, FALSE)
    ELSE IF SchemeOf(u) # <<"h", "t", "t", "p">> /\ SchemeOf(u) # <<"h", "t", "t", "p", "s">>
    THEN ErrorMessage("Only HTTP and HTTPS protocols are supported", 0, FALSE)
    ELSE NoError

-----------------------------------------------------------------------------
(* Extraction of the page fields from the response *)

\* the five fields read out of the cheerio document, trimmed as the code trims them
ParsePage(title, description, h1Tags, links, body) ==
    [title           |-> trim(title),
     metaDescription |-> trim(description),
     h1Tags          |-> [i \in 1..Len(h1Tags) |-> trim(h1Tags[i])],
     links           |-> SelectSeq(links, LAMBDA h : h # ""),
     content         |-> trim(body)]

\* the catch block's message for an axios error that carries a response
HttpErrorMessage(status) ==
    ErrorMessage("Server responded with status", status, status = 0 \/ status = 403)

\* the catch block's message for an axios error without a response
NoResponseMessage(code) ==
    IF code = "ECONNABORTED"
    THEN ErrorMessage("Request timed out. The server took too long to respond.", 0, FALSE)
    ELSE ErrorMessage("Network error: No response received. Please check your internet connection and try again.", 0, FALSE)

\* the catch block's message for the SyntaxError of new RegExp(keyword, 'gi')
RegExpErrorMessage == ErrorMessage("Invalid regular expression", 0, FALSE)

EmptyHtmlMessage ==
    ErrorMessage("Received empty or invalid HTML from the proxy server", 0, FALSE)

\* mockSerpResults of performSerpAnalysis
MockSerpResults(kw) ==
    [topKeywords |-> <<kw, kw \o <<" ", "b", "e", "s", "t">>,
                       kw \o <<" ", "r", "e", "v", "i", "e", "w">>,
                       kw \o <<" ", "p", "r", "i", "c", "e">> >>,
     avgTitleLength |-> 55,
     avgDescriptionLength |-> 140,
     commonTitleElements |-> <<"Best", "Top", "Review", "2023">>]

\* the same, but unchecking a box takes one off the count
handleSuggestionCompletion_Decrement(prev, isChecked, index) ==
    IF isChecked THEN (IF prev >= index + 1 THEN prev ELSE index + 1) ELSE prev - 1

\* the state update of handleSuggestionCompletion
handleSuggestionCompletion(prev, isChecked, index) ==
    IF isChecked THEN (IF prev >= index + 1 THEN prev ELSE index + 1) ELSE index

\* isChecked={completedSuggestions > index}
IsComplete(watermark, index) == watermark > index

\* value={(completedSuggestions / seoSuggestions.length) * 100}, rendered only
\* when seoSuggestions.length > 0 (the whole part of the percentage)
ProgressValue(watermark, total) == (watermark * 100) \div total

-----------------------------------------------------------------------------
(* The texts the environment supplies: what the user types, what pages hold *)

\* s repeated n times
Rep(s, n) == [i \in 1..(n * Len(s)) |-> s[((i - 1) % Len(s)) + 1]]

\* n words w separated by single spaces
Words(w, n) == IF n = 0 THEN <<>> ELSE Rep(w \o <<" ">>, n - 1) \o w

JoinWords(a, b) == IF a = <<>> THEN b ELSE IF b = <<>> THEN a ELSE a \o <<" ">> \o b

Page(title, description, h1Tags, links, content) ==
    [title |-> title, metaDescription |-> description, h1Tags |-> h1Tags,
     links |-> links, content |-> content]

\* A long text is held in the state by its shape: a literal start followed by
\* n copies of a unit.  TextOf writes it out, and every string operation of
\* the program works on the text written out.
Shape(start, unit, n) == [start |-> start, unit |-> unit, n |-> n]
Literal(s) == Shape(s, <<>>, 0)
TextOf(shape) == shape.start \o Rep(shape.unit, shape.n)

\* hits occurrences of "ab" and then filler words, `words` words in all
BodyShape(hits, words) ==
    IF hits = 0
    THEN Shape(<<"x">>, <<" ", "x">>, words - 1)
    ELSE Shape(Words(<<"a", "b">>, hits), <<" ", "x", "y", "z">>, words - hits)

KwAb == <<"a", "b">>          \* a plain keyword
KwWild == <<"a", ".">>        \* a keyword holding the RegExp wildcard
KwGroup == <<"a", "(">>       \* a keyword holding an unterminated RegExp group

\* what the user may type into the keyword field
KeywordInputs == {<<>>, KwAb, KwGroup}

UrlHttps == <<"h", "t", "t", "p", "s", ":", "/", "/", "e", ".", "o", "r", "g">>
UrlFtp == <<"f", "t", "p", ":", "/", "/", "e", ".", "o", "r", "g">>
UrlNoScheme == <<"e", ".", "o", "r", "g">>

\* what the user may type into the URL field
UrlInputs == {<<>>, UrlFtp, UrlHttps}

\* a page with nothing on it: title "A" (padded), no description, headings, links or text
PageBare == Page(Literal(<<" ", "A", " ">>), Literal(<<>>), <<>>, <<"">>, Literal(<<" ">>))

\* a page that satisfies every rule for the keyword "ab"
PageGood ==
    Page(Shape(<<"A", "b">>, <<"x">>, TitleMinLength - 2),
         Shape(KwAb, <<"y">>, DescriptionMinLength - 2),
         << <<"A", "B">> >>,
         <<"/a", "/b">>,
         BodyShape(1, 100))

\* a short page with two headings
PageShort ==
    Page(Literal(<<"A">>),
         Shape(KwAb, <<"y">>, DescriptionMinLength - 2),
         << <<"a", "b">>, <<"x">> >>,
         <<"/a", "", "/b">>,
         Literal(KwAb))

\* the pages the proxy may return to the application
AppPages == {PageBare, PageGood, PageShort}

\* The pages and keywords on which generateSeoSuggestions is examined as a
\* function: every field around its thresholds.

KwUpper == <<"A", "B">>
KwShoes == <<"s", "h", "o", "e", "s">>

\* keywords the Analyze guard lets through (keyword.trim() is not empty)
EvalKeywords == {KwAb, KwUpper, KwWild, KwGroup, KwShoes}

\* every keyword: the empty string too, which only a direct call can pass
AllKeywords == EvalKeywords \cup {<<>>}

EvalTitles ==
    {Literal(<<"A">>),
     Shape(<<>>, <<"x">>, TitleMinLength - 1),
     Shape(<<"A", "b">>, <<"x">>, TitleMinLength - 2),
     Shape(<<"A", "b">>, <<"x">>, TitleMaxLength - 2),
     Shape(<<>>, <<"x">>, TitleMaxLength + 1)}

EvalDescriptions ==
    {Literal(<<>>),
     Shape(<<>>, <<"y">>, DescriptionMinLength - 1),
     Shape(KwAb, <<"y">>, DescriptionMinLength - 2),
     Shape(KwAb, <<"y">>, DescriptionMaxLength - 1)}

SeqsUpTo(S, n) == UNION {[1..k -> S] : k \in 0..n}

EvalH1Lists == SeqsUpTo({<<"A", "b">>, <<"x">>}, MaxH1)

EvalLinkLists == {Rep(<<"/a">>, n) : n \in 0..MaxLinks}

\* word counts on both sides of 1 in 40 (2.5%) and 1 in 200 (0.5%)
EvalWordCounts == {1, 39, 40, 41, 100, 199, 200, 201}

EvalBodies ==
    {Literal(<<>>)}
    \cup {BodyShape(hits, words) : hits \in 0..MaxHits,
                                   words \in {w \in EvalWordCounts : w >= MaxHits}}
    \cup {BodyShape(hits, 1) : hits \in 0..1}
    \cup {Shape(KwAb, <<"x">>, MinContentLength - 3),
          Shape(KwAb, <<"x">>, MinContentLength - 2)}

EvalPages ==
    {Page(title, description, h1Tags, links, content) :
        title \in EvalTitles, description \in EvalDescriptions,
        h1Tags \in EvalH1Lists, links \in EvalLinkLists,
        content \in {Literal(<<>>), Literal(KwAb)}}
    \cup
    {Page(page.title, page.metaDescription, page.h1Tags, page.links, content) :
        page \in {PageBare, PageGood}, content \in EvalBodies}

\* the statuses and error codes of the failed requests modelled
HttpStatuses == {403, 500}
NoResponseCodes == {"ECONNABORTED", "ERR_NETWORK"}

\* the parsedData object built from the response that carries `page`
ParsedData(page) ==
    ParsePage(TextOf(page.title), TextOf(page.metaDescription), page.h1Tags,
              page.links, TextOf(page.content))

-----------------------------------------------------------------------------
(* The proxy server: the program of src/server.js, lines 29-567.  An origin  *)
(* is a sequence of pieces of text, so that startsWith is a prefix test; an  *)
(* error message is the sequence of its words.  First, its configuration.   *)

Wildcard == <<"*">>
OriginA == <<"https://a.app">>
OriginB == <<"https://b.app">>
OriginALonger == <<"https://a.app", ".evil.com">>   \* starts with OriginA

\* String.prototype.startsWith
startsWith(s, prefix) ==
    Len(s) >= Len(prefix) /\ SubSeq(s, 1, Len(prefix)) = prefix

\* Array.prototype.includes
arrayIncludes(array, x) == \E i \in 1..Len(array) : array[i] = x

\* process.env.ALLOWED_ORIGINS: <<>> when unset, else <<entries>>, the pieces
\* between its commas
EnvUnset == <<>>
AllowedOriginsEnvs ==
    {EnvUnset,
     << <<Wildcard>> >>,
     << <<OriginA>> >>,
     << << <<" ">> \o OriginA, OriginB >> >>,
     << << <<>>, <<" ">> >> >>}

\* split(',').map(trim).filter(non-empty), [] when the variable is unset
parsedAllowedOrigins(env) ==
    IF env = <<>> THEN <<>>
    ELSE SelectSeq([i \in 1..Len(env[1]) |-> trim(env[1][i])], LAMBDA o : o # <<>>)

\* parsedAllowedOrigins.length > 0 ? parsedAllowedOrigins : ['*']
AllowedOriginsOf(env) ==
    IF Len(parsedAllowedOrigins(env)) > 0 THEN parsedAllowedOrigins(env) ELSE <<Wildcard>>

\* the server has started with ALLOWED_ORIGINS = env
ProxyStart(env) ==
    /\ allowedOrigins = AllowedOriginsOf(env)
    /\ req = <<>>
    /\ res = <<>>
    /\ upstream = <<>>

-----------------------------------------------------------------------------
(* The application *)

AppInit ==
    /\ url = <<>>
    /\ keyword = <<>>
    /\ parsedContent = <<>>
    /\ error = NoError
    /\ seoSuggestions = <<>>
    /\ isLoading = FALSE
    /\ completedSuggestions = 0
    /\ serpResults = <<>>
    /\ pending = <<>>
    /\ serpTimers = <<>>
    /\ requestCount = 0
    /\ lastRequest = <<>>
    /\ serpOwner = 0

\* the application starts, beside a proxy started with ALLOWED_ORIGINS unset
Init == AppInit /\ ProxyStart(EnvUnset)

\* onChange of the URL input
SetUrl(u) ==
    /\ url' = u
    /\ UNCHANGED <<keyword, parsedContent, error, seoSuggestions, isLoading,
                   completedSuggestions, serpResults, pending, serpTimers,
                   requestCount, lastRequest, serpOwner>>
    /\ UNCHANGED proxyVars

\* onChange of the keyword input
SetKeyword(kw) ==
    /\ keyword' = kw
    /\ UNCHANGED <<url, parsedContent, error, seoSuggestions, isLoading,
                   completedSuggestions, serpResults, pending, serpTimers,
                   requestCount, lastRequest, serpOwner>>
    /\ UNCHANGED proxyVars

\* the Analyze button is enabled
CanAnalyze == ~isLoading /\ trim(keyword) # <<>>

\* fetchAndParseContent up to its first await.  A failed validation runs the
\* catch and finally blocks in the same step.
fetchAndParseContent ==
    /\ requestCount' = requestCount + 1
    /\ lastRequest' = keyword
    /\ parsedContent' = <<>>
    /\ serpResults' = <<>>
    /\ serpOwner' = 0
    /\ error' = InputError(url, keyword)
    /\ IF InputError(url, keyword) = NoError
       THEN /\ isLoading' = TRUE
            /\ pending' = <<[url |-> trim(url), keyword |-> keyword,
                             request |-> requestCount + 1]>>
       ELSE /\ isLoading' = FALSE
            /\ pending' = <<>>
    /\ UNCHANGED <<url, keyword, seoSuggestions, completedSuggestions, serpTimers>>
    /\ UNCHANGED proxyVars

\* Click on Analyze
Analyze ==
    /\ CanAnalyze
    /\ requestCount < MaxRequests
    /\ fetchAndParseContent

\* The proxy answers 2xx with the HTML of `page`: the rest of the try block
\* (parse, setParsedContent, generateSeoSuggestions, performSerpAnalysis up to
\* its await), the catch block when new RegExp throws, and the finally block.
FetchPage(page) ==
    /\ pending # <<>>
    /\ LET result == generateSeoSuggestions(ParsedData(page), pending[1].keyword)
       IN  /\ parsedContent' = <<page>>
           /\ IF result.threw
              THEN /\ error' = RegExpErrorMessage
                   /\ UNCHANGED <<seoSuggestions, serpTimers>>
              ELSE /\ seoSuggestions' = result.suggestions
                   /\ serpTimers' = Append(serpTimers,
                                           [keyword |-> pending[1].keyword,
                                            request |-> pending[1].request])
                   /\ UNCHANGED error
    /\ isLoading' = FALSE
    /\ pending' = <<>>
    /\ UNCHANGED <<url, keyword, completedSuggestions, serpResults,
                   requestCount, lastRequest, serpOwner>>
    /\ UNCHANGED proxyVars

\* FetchFails without the finally block of lines 282-286
FetchFails_StillLoading(message) ==
    /\ pending # <<>>
    /\ error' = message
    /\ pending' = <<>>
    /\ UNCHANGED <<url, keyword, parsedContent, seoSuggestions, completedSuggestions,
                   serpResults, serpTimers, requestCount, lastRequest, serpOwner,
                   isLoading>>
    /\ UNCHANGED proxyVars

\* The request ends without a page: message is what the catch block sets
FetchFails(message) ==
    /\ pending # <<>>
    /\ error' = message
    /\ isLoading' = FALSE
    /\ pending' = <<>>
    /\ UNCHANGED <<url, keyword, parsedContent, seoSuggestions, completedSuggestions,
                   serpResults, serpTimers, requestCount, lastRequest, serpOwner>>
    /\ UNCHANGED proxyVars

\* The proxy answers 2xx with an empty or non-text body
FetchEmpty == FetchFails(EmptyHtmlMessage)

\* The proxy answers with a status axios rejects
FetchHttpError(status) == FetchFails(HttpErrorMessage(status))

\* No response arrives (timeout after 30000 ms, or a network failure)
FetchNoResponse(code) == FetchFails(NoResponseMessage(code))

\* The 2000 ms timer of the oldest performSerpAnalysis call fires
SerpResolve ==
    /\ serpTimers # <<>>
    /\ serpResults' = <<MockSerpResults(Head(serpTimers).keyword)>>
    /\ serpOwner' = Head(serpTimers).request
    /\ serpTimers' = Tail(serpTimers)
    /\ UNCHANGED <<url, keyword, parsedContent, error, seoSuggestions, isLoading,
                   completedSuggestions, pending, requestCount, lastRequest>>
    /\ UNCHANGED proxyVars

\* Click on the checkbox of suggestion `index`: the checkbox is rendered when a
\* page is presented, and e.target.checked is the opposite of what it showed
ToggleSuggestion(index) ==
    /\ parsedContent # <<>>
    /\ index \in 0..(Len(seoSuggestions) - 1)
    /\ completedSuggestions' =
           handleSuggestionCompletion(completedSuggestions,
                                      ~IsComplete(completedSuggestions, index), index)
    /\ UNCHANGED <<url, keyword, parsedContent, error, seoSuggestions, isLoading,
                   serpResults, pending, serpTimers, requestCount, lastRequest,
                   serpOwner>>
    /\ UNCHANGED proxyVars

\* the most suggestions one evaluation produces (one per rule)
RuleCount == 8

Next ==
    \/ \E u \in UrlInputs : SetUrl(u)
    \/ \E kw \in KeywordInputs : SetKeyword(kw)
    \/ Analyze
    \/ \E page \in AppPages : FetchPage(page)
    \/ FetchEmpty
    \/ \E status \in HttpStatuses : FetchHttpError(status)
    \/ \E code \in NoResponseCodes : FetchNoResponse(code)
    \/ SerpResolve
    \/ \E index \in 0..(RuleCount - 1) : ToggleSuggestion(index)

Spec == Init /\ [][Next]_vars

-----------------------------------------------------------------------------
(* generateSeoSuggestions as a function: a request is awaiting its response   *)
(* with keyword kw captured, and the response carries any page of EvalPages.  *)

AwaitingResponse(kw) ==
    /\ url = UrlHttps
    /\ keyword = kw
    /\ parsedContent = <<>>
    /\ error = NoError
    /\ seoSuggestions = <<>>
    /\ isLoading = TRUE
    /\ completedSuggestions = 0
    /\ serpResults = <<>>
    /\ pending = <<[url |-> UrlHttps, keyword |-> kw, request |-> 1]>>
    /\ serpTimers = <<>>
    /\ requestCount = 1
    /\ lastRequest = kw
    /\ serpOwner = 0
    /\ ProxyStart(EnvUnset)

EvalInit == \E kw \in EvalKeywords : AwaitingResponse(kw)

EvalNext == \E page \in EvalPages : FetchPage(page)

\* the function on the inputs the application can pass it
EvalSpec == EvalInit /\ [][EvalNext]_vars

FunctionInit == \E kw \in AllKeywords : AwaitingResponse(kw)

\* the function on every keyword string, the empty one included
FunctionSpec == FunctionInit /\ [][EvalNext]_vars

-----------------------------------------------------------------------------
(* fetchAndParseContent called on every pair of inputs: the calls the button  *)
(* lets through, and those with a blank keyword that only a direct call makes *)

UrlBlank == <<" ">>
UrlUpper == <<"H", "T", "T", "P", ":", "/", "/", "E", ".", "O", "R", "G">>
KwBlank == <<" ">>

RequestUrls == UrlInputs \cup {UrlBlank, UrlNoScheme, UrlUpper}
RequestKeywords == KeywordInputs \cup {KwBlank}

RequestInit ==
    /\ url \in RequestUrls
    /\ keyword \in RequestKeywords
    /\ parsedContent = <<>>
    /\ error = NoError
    /\ seoSuggestions = <<>>
    /\ isLoading = FALSE
    /\ completedSuggestions = 0
    /\ serpResults = <<>>
    /\ pending = <<>>
    /\ serpTimers = <<>>
    /\ requestCount = 0
    /\ lastRequest = <<>>
    /\ serpOwner = 0
    /\ ProxyStart(EnvUnset)

\* a call of fetchAndParseContent while no request is in flight
Call ==
    /\ ~isLoading
    /\ requestCount < MaxRequests
    /\ fetchAndParseContent

RequestNext ==
    \/ Call
    \/ \E page \in AppPages : FetchPage(page)
    \/ FetchEmpty
    \/ \E status \in HttpStatuses : FetchHttpError(status)
    \/ \E code \in NoResponseCodes : FetchNoResponse(code)
    \/ SerpResolve

RequestSpec == RequestInit /\ [][RequestNext]_vars

-----------------------------------------------------------------------------
(* The proxy server: requests, responses and the handlers of src/server.js *)

AllowMethods == "GET, OPTIONS"
AllowHeaders == "Content-Type, Authorization, Origin, X-Requested-With, Accept"

\* the CORS headers of a response: allowOrigin is <<>> when the header is
\* absent, the others are "" when absent
Headers(allowOrigin, methods, headers, credentials) ==
    [allowOrigin |-> allowOrigin, allowMethods |-> methods,
     allowHeaders |-> headers, allowCredentials |-> credentials]

NoHeaders == Headers(<<>>, "", "", "")

\* setCorsHeaders(req, res): origin is <<>> when the request has no Origin
\* header, else <<the origin>>
setCorsHeaders(allowed, origin) ==
    Headers(IF arrayIncludes(allowed, Wildcard) THEN <<Wildcard>>
            ELSE IF origin # <<>>
            THEN IF \E i \in 1..Len(allowed) : startsWith(origin[1], allowed[i])
                 THEN origin
                 ELSE <<allowed[1]>>
            ELSE <<allowed[1]>>,
            AllowMethods, AllowHeaders, "true")

Response(statusCode, headers, message) ==
    [statusCode |-> statusCode, headers |-> headers, error |-> message]

\* app.options('*', ...), the first handler registered: it ends every OPTIONS
\* request
OptionsResponse(allowed, origin) ==
    IF arrayIncludes(allowed, Wildcard)
       \/ (origin # <<>> /\ arrayIncludes(allowed, origin[1]))
    THEN Response(204,
                  Headers(IF arrayIncludes(allowed, Wildcard) THEN <<Wildcard>> ELSE origin,
                          AllowMethods, AllowHeaders, "true"),
                  <<>>)
    ELSE Response(403, NoHeaders, <<>>)

UrlRequiredMessage == <<"URL", "parameter", "is", "required">>
InvalidUrlMessage == <<"Invalid", "URL", "provided">>
ProtocolMessage == <<"Only", "HTTP", "and", "HTTPS", "protocols", "are", "supported">>
GatewayTimeoutMessage ==
    <<"Gateway", "Timeout:", "No", "response", "received", "from", "the", "target", "server">>

\* the Error thrown before the upstream request, if any (<<>>): urlParam is
\* <<>> when the query has no url, else <<its text>>
ValidationError(urlParam) ==
    IF urlParam = <<>> \/ urlParam[1] = <<>>
    THEN UrlRequiredMessage
    ELSE IF ~UrlParses(urlParam[1])
    THEN InvalidUrlMessage
    ELSE IF SchemeOf(urlParam[1]) # <<"h", "t", "t", "p">>
            /\ SchemeOf(urlParam[1]) # <<"h", "t", "t", "p", "s">>
    THEN ProtocolMessage
    ELSE <<>>

\* parsedUrl.href of an address without a path: scheme and host in lower
\* case, and the path "/"
Href(u) == toLowerCase(trim(u)) \o <<"/">>

\* what the catch block receives: response is the status of error.response
\* (0 when there is none), request tells whether error.request is set
Thrown(message, isAxiosError, response, request) ==
    [message |-> message, isAxiosError |-> isAxiosError,
     response |-> response, request |-> request]

\* the axios errors that carry a request and no response
TimeoutError == Thrown(<<"timeout", "of", "30000ms", "exceeded">>, TRUE, 0, TRUE)
ConnectionError == Thrown(<<"connect", "ECONNREFUSED">>, TRUE, 0, TRUE)
RedirectsError ==
    Thrown(<<"Maximum", "number", "of", "redirects", "exceeded">>, TRUE, 0, TRUE)

\* catchResponse without the 504 of lines 433-435
catchResponse_NoGateway(err) ==
    [statusCode |->
         IF err.isAxiosError /\ err.response # 0 THEN err.response
         ELSE IF includes(err.message, <<"Invalid", "URL">>)
                 \/ includes(err.message, UrlRequiredMessage)
         THEN 400
         ELSE 500,
     error |-> err.message]

\* the catch block: statusCode and errorMessage for the error caught
catchResponse(err) ==
    [statusCode |->
         IF err.isAxiosError /\ err.response # 0 THEN err.response
         ELSE IF err.isAxiosError /\ err.request THEN 504
         ELSE IF includes(err.message, <<"Invalid", "URL">>)
                 \/ includes(err.message, UrlRequiredMessage)
         THEN 400
         ELSE 500,
     error |->
         IF err.isAxiosError /\ err.response # 0
         THEN <<"Proxy", "target", "responded", "with", "status">>
         ELSE IF err.isAxiosError /\ err.request THEN GatewayTimeoutMessage
         ELSE err.message]

\* the origins a request may carry, and the url parameters of GET /proxy
RequestOrigins == {<<>>, <<OriginA>>, <<OriginB>>, <<OriginALonger>>}
UrlParams == {<<>>, <<UrlBlank>>, <<UrlNoScheme>>, <<UrlFtp>>, <<UrlHttps>>, <<UrlUpper>>} \cup {<< <<>> >>}

\* the statuses an upstream server answers with
UpstreamStatuses == {200, 204, 404, 500, 504}

Request(method, origin, urlParam) ==
    [method |-> method, origin |-> origin, url |-> urlParam]

\* an OPTIONS request arrives and is answered
Options(origin) ==
    /\ upstream = <<>>
    /\ req' = <<Request("OPTIONS", origin, <<>>)>>
    /\ res' = <<OptionsResponse(allowedOrigins, origin)>>
    /\ UNCHANGED <<allowedOrigins, upstream>>
    /\ UNCHANGED appVars

\* GET /proxy arrives: the middlewares, and the handler up to its await.  A
\* failed validation runs the catch block and sends the response in the same
\* step.
GetProxy(origin, urlParam) ==
    /\ upstream = <<>>
    /\ req' = <<Request("GET", origin, urlParam)>>
    /\ IF ValidationError(urlParam) = <<>>
       THEN /\ upstream' = <<Href(urlParam[1])>>
            /\ res' = <<>>
       ELSE /\ upstream' = <<>>
            /\ LET caught == catchResponse(Thrown(ValidationError(urlParam), FALSE, 0, FALSE))
               IN  res' = <<Response(caught.statusCode,
                                     setCorsHeaders(allowedOrigins, origin),
                                     caught.error)>>
    /\ UNCHANGED allowedOrigins
    /\ UNCHANGED appVars

\* the upstream answers (validateStatus: null resolves on every status): the
\* rest of the try block, and the response
UpstreamResponds(status) ==
    /\ upstream # <<>>
    /\ upstream' = <<>>
    /\ res' = <<Response(status, setCorsHeaders(allowedOrigins, req[1].origin), <<>>)>>
    /\ UNCHANGED <<allowedOrigins, req>>
    /\ UNCHANGED appVars

\* axios.get rejects with err: the catch block, and the response
UpstreamFails(err) ==
    /\ upstream # <<>>
    /\ upstream' = <<>>
    /\ res' = <<Response(catchResponse(err).statusCode,
                         setCorsHeaders(allowedOrigins, req[1].origin),
                         catchResponse(err).error)>>
    /\ UNCHANGED <<allowedOrigins, req>>
    /\ UNCHANGED appVars

\* no answer within 30000 ms, or no connection
UpstreamNoResponse(err) == UpstreamFails(err)

\* the upstream answers with a sixth redirection (maxRedirects: 5)
UpstreamRedirects == UpstreamFails(RedirectsError)

ProxyInit == AppInit /\ \E env \in AllowedOriginsEnvs : ProxyStart(env)

ProxyNext ==
    \/ \E origin \in RequestOrigins : Options(origin)
    \/ \E origin \in RequestOrigins, urlParam \in UrlParams : GetProxy(origin, urlParam)
    \/ \E status \in UpstreamStatuses : UpstreamResponds(status)
    \/ \E err \in {TimeoutError, ConnectionError} : UpstreamNoResponse(err)
    \/ UpstreamRedirects

ProxySpec == ProxyInit /\ [][ProxyNext]_vars

-----------------------------------------------------------------------------
(* What the properties speak of *)

\* generateSeoSuggestions has been called, on the page presented and with the
\* keyword of the latest request
Evaluated == parsedContent # <<>>

\* ... and it returned: no exception reached the catch block
Returned == Evaluated /\ error = NoError

Doc == ParsedData(parsedContent[1])

\* the call produced a finding with this title
Produced(title) ==
    Returned /\ \E i \in 1..Len(seoSuggestions) : seoSuggestions[i].title = title

TitleLengthFinding == "Optimize title length"
KeywordInTitleFinding == "Include focus keyword in title"
DescriptionLengthFinding == "Optimize meta description length"
KeywordInDescriptionFinding == "Include focus keyword in meta description"
AddH1Finding == "Add an H1 tag"
OneH1Finding == "Use only one H1 tag per page"
KeywordInH1Finding == "Include focus keyword in H1 tag"
LinkFinding == "Add more internal or external links"
ContentLengthFinding == "Increase content length"
IncreaseDensityFinding == "Increase keyword density"
DecreaseDensityFinding == "Decrease keyword density"

\* the number of whitespace-delimited tokens of a text (empty tokens excluded)
TokenCount(s) ==
    Cardinality({i \in 1..Len(s) : ~IsSpace(s[i]) /\ (i = 1 \/ IsSpace(s[i - 1]))})

\* the text holds the word at position i, letter for letter, whatever the case
OccursAt(s, i, word) ==
    /\ i + Len(word) - 1 <= Len(s)
    /\ toLowerCase(SubSeq(s, i, i + Len(word) - 1)) = toLowerCase(word)

\* the number of case-insensitive, non-overlapping occurrences of a non-empty
\* word in a text
RECURSIVE OccurrencesFrom(_, _, _)
OccurrencesFrom(s, word, i) ==
    LET at == {j \in i..Len(s) : OccursAt(s, j, word)}
    IN  IF at = {} THEN 0 ELSE 1 + OccurrencesFrom(s, word, SetMin(at) + Len(word))

Occurrences(s, word) == OccurrencesFrom(s, word, 1)

\* the text contains the word, whatever the case
Contains(s, word) == \E i \in 1..Len(s) : OccursAt(s, i, word)

\* C1: for a non-empty keyword occurring N times among the W > 0 tokens of the
\* body, a call that returns reports "increase" iff 100*N/W < 0.5, "decrease"
\* iff 100*N/W > 2.5, and never both.
C1_DensityRoundTrip ==
    (Returned /\ lastRequest # <<>> /\ TokenCount(Doc.content) > 0) =>
        LET N == Occurrences(Doc.content, lastRequest)
            W == TokenCount(Doc.content)
        IN  /\ Produced(IncreaseDensityFinding) <=> 200 * N < W
            /\ Produced(DecreaseDensityFinding) <=> 200 * N > 5 * W
            /\ ~(Produced(IncreaseDensityFinding) /\ Produced(DecreaseDensityFinding))

BareDoc ==
    [title |-> <<"A">>, metaDescription |-> <<>>, h1Tags |-> <<>>, links |-> <<>>,
     content |-> <<>>]

\* C2: on title "A", everything else empty and keyword "shoes", the findings
\* include title length, keyword in title, description length, keyword in
\* description, add H1, add links and content length, and no density finding;
\* whenever the body has no words, there is no density finding.
C2_BareScenario ==
    /\ (Evaluated /\ TokenCount(Doc.content) = 0) =>
           /\ ~Produced(IncreaseDensityFinding)
           /\ ~Produced(DecreaseDensityFinding)
    /\ (Evaluated /\ Doc = BareDoc /\ lastRequest = KwShoes) =>
           \A title \in {TitleLengthFinding, KeywordInTitleFinding,
                         DescriptionLengthFinding, KeywordInDescriptionFinding,
                         AddH1Finding, LinkFinding, ContentLengthFinding} :
               Produced(title)

\* C3: with the empty keyword there is no keyword-in-title, keyword-in-
\* description, keyword-in-H1 or density finding, and the length, link, content
\* and H1-count findings are those of the page alone.
C3_EmptyKeyword ==
    (Evaluated /\ lastRequest = <<>>) =>
        /\ Returned
        /\ \A title \in {KeywordInTitleFinding, KeywordInDescriptionFinding,
                         KeywordInH1Finding, IncreaseDensityFinding,
                         DecreaseDensityFinding} : ~Produced(title)
        /\ Produced(TitleLengthFinding) <=>
               (Len(Doc.title) < 30 \/ Len(Doc.title) > 60)
        /\ Produced(DescriptionLengthFinding) <=>
               (Len(Doc.metaDescription) < 120 \/ Len(Doc.metaDescription) > 160)
        /\ Produced(AddH1Finding) <=> Len(Doc.h1Tags) = 0
        /\ Produced(OneH1Finding) <=> Len(Doc.h1Tags) > 1
        /\ Produced(LinkFinding) <=> Len(Doc.links) < 2
        /\ Produced(ContentLengthFinding) <=> Len(Doc.content) < 300

\* C4: the evaluation never raises: whenever a page has been parsed and handed
\* to generateSeoSuggestions, the call returned and no error is reported.
C4_NoErrorPath == Evaluated => Returned

\* C5: a step that presents a new page leaves the completion watermark at 0.
C5_WatermarkReset ==
    [][(parsedContent' # parsedContent /\ parsedContent' # <<>>)
          => completedSuggestions' = 0]_vars

\* C6: a competitive snapshot on display comes from the latest request; the
\* result of an older request is never written after a newer one has started.
C6_StaleDiscarded == serpResults # <<>> => serpOwner = requestCount

\* C7: whenever a page is presented, the stored findings are exactly those of
\* that page and of the keyword of the request that fetched it.
C7_PairedFindings ==
    Evaluated =>
        seoSuggestions = generateSeoSuggestions(Doc, lastRequest).suggestions

\* the larger of two numbers
Max(a, b) == IF a >= b THEN a ELSE b

\* C8: the completion state is one watermark.  A click on a box shown
\* unchecked (checking index i) sets it to max(watermark, i + 1); a click on a
\* box shown checked (unchecking index i) sets it to i, however high it was;
\* box j shows checked iff watermark > j.  With 5 findings, checking index 2
\* from 0 gives 3, and unchecking index 0 then gives 0, progress 0.
C8_Watermark ==
    [][\A i \in 0..(RuleCount - 1) :
          ToggleSuggestion(i) =>
              /\ completedSuggestions <= i =>
                     completedSuggestions' = Max(completedSuggestions, i + 1)
              /\ completedSuggestions > i => completedSuggestions' = i
              /\ \A j \in 0..(Len(seoSuggestions) - 1) :
                     IsComplete(completedSuggestions', j) <=> completedSuggestions' > j
              /\ (Len(seoSuggestions) = 5 /\ completedSuggestions = 0 /\ i = 2) =>
                     completedSuggestions' = 3
              /\ (Len(seoSuggestions) = 5 /\ completedSuggestions = 3 /\ i = 0) =>
                     /\ completedSuggestions' = 0
                     /\ ProgressValue(completedSuggestions', Len(seoSuggestions)) = 0
      ]_vars

\* five findings on display, index 2 checked: boxes 0, 1 and 2 show checked,
\* and box 0 can be unchecked
C8_Witness ==
    /\ Returned
    /\ Len(seoSuggestions) = 5
    /\ completedSuggestions = 3
    /\ IsComplete(completedSuggestions, 0)
    /\ ENABLED ToggleSuggestion(0)

\* C9: at most one H1 finding is produced; with no H1 only "add an H1" can be,
\* with two or more only "use only one H1", and with exactly one H1 the keyword
\* finding is produced iff the keyword is non-empty and the H1 lacks it.
C9_H1Exclusive ==
    Evaluated =>
        LET add == Produced(AddH1Finding)
            one == Produced(OneH1Finding)
            key == Produced(KeywordInH1Finding)
        IN  /\ ~(add /\ one) /\ ~(add /\ key) /\ ~(one /\ key)
            /\ Len(Doc.h1Tags) = 0 => ~one /\ ~key
            /\ Len(Doc.h1Tags) >= 2 => ~add /\ ~key
            /\ Len(Doc.h1Tags) = 1 =>
                   /\ ~add /\ ~one
                   /\ key <=> (lastRequest # <<>> /\ ~Contains(Doc.h1Tags[1], lastRequest))

\* the rule a finding belongs to, in the order the rules are declared
RuleOf(title) ==
    CASE title = TitleLengthFinding -> 1
      [] title = KeywordInTitleFinding -> 2
      [] title = DescriptionLengthFinding -> 3
      [] title = KeywordInDescriptionFinding -> 4
      [] title \in {AddH1Finding, OneH1Finding, KeywordInH1Finding} -> 5
      [] title = LinkFinding -> 6
      [] title = ContentLengthFinding -> 7
      [] title \in {IncreaseDensityFinding, DecreaseDensityFinding} -> 8

\* C10: the stored findings are in rule-declaration order, one at most for
\* each rule.
C10_FixedOrder ==
    \A i, j \in 1..Len(seoSuggestions) :
        i < j => RuleOf(seoSuggestions[i].title) < RuleOf(seoSuggestions[j].title)

\* rules do not suppress one another: all eight produce a finding at once,
\* title length and keyword in title among them
C10_Witness ==
    /\ Returned
    /\ Len(seoSuggestions) = RuleCount
    /\ Produced(TitleLengthFinding)
    /\ Produced(KeywordInTitleFinding)

\* C11: the title-length finding is produced iff the title has fewer than 30
\* or more than 60 characters, whatever the keyword and the other fields.
C11_TitleBoundary ==
    Evaluated =>
        (Produced(TitleLengthFinding) <=>
             (Len(Doc.title) < 30 \/ Len(Doc.title) > 60))

\* the same of the calls that return
C11_WhenReturned ==
    Returned =>
        (Produced(TitleLengthFinding) <=>
             (Len(Doc.title) < 30 \/ Len(Doc.title) > 60))

\* C12: the content-length finding is produced iff the body has fewer than 300
\* characters, however many words it has.
C12_ContentCharacters ==
    Evaluated =>
        (Produced(ContentLengthFinding) <=> Len(Doc.content) < 300)

\* the same of the calls that return
C12_WhenReturned ==
    Returned =>
        (Produced(ContentLengthFinding) <=> Len(Doc.content) < 300)

\* a body of 300 characters or more and fewer than 300 words was evaluated
C12_LongFewWords ==
    Returned /\ Len(Doc.content) >= 300 /\ TokenCount(Doc.content) < 300

\* the text is empty or all whitespace
Blank(s) == \A i \in 1..Len(s) : IsSpace(s[i])

\* s begins with the letters of prefix, whatever their case
StartsWith(s, prefix) ==
    /\ Len(s) >= Len(prefix)
    /\ \A i \in 1..Len(prefix) : LowerChar(s[i]) = prefix[i]

\* the text without the whitespace around it
Stripped(s) ==
    LET inked == {i \in 1..Len(s) : ~IsSpace(s[i])}
    IN  IF inked = {} THEN <<>> ELSE SubSeq(s, SetMin(inked), SetMax(inked))

\* an http:// or https:// address with a host
HttpAddress(u) ==
    \E prefix \in {<<"h", "t", "t", "p", ":", "/", "/">>,
                   <<"h", "t", "t", "p", "s", ":", "/", "/">>} :
        /\ StartsWith(Stripped(u), prefix)
        /\ Len(Stripped(u)) > Len(prefix)
        /\ Stripped(u)[Len(prefix) + 1] # "/"

\* the inputs that the claim calls input errors
InputFault(u, kw) == Blank(u) \/ Blank(kw) \/ ~HttpAddress(u)

InputErrorTexts ==
    {"Please enter a URL", "Please enter a keyword for analysis",
     "Invalid URL format. Please enter a valid URL including the protocol (http:// or https://)",
     "Only HTTP and HTTPS protocols are supported"}

\* C13: a call of fetchAndParseContent with a blank URL, a blank keyword, a
\* malformed URL or a scheme other than http/https ends in the same step with
\* one of the input-error messages, not loading and with no GET in flight; a
\* GET is only ever sent by a call whose inputs have none of these faults.
C13_InputErrorsFirst ==
    [][/\ (fetchAndParseContent /\ InputFault(url, keyword)) =>
              /\ error'.text \in InputErrorTexts
              /\ ~isLoading'
              /\ pending' = <<>>
       /\ (pending' # <<>> /\ pending' # pending) =>
              /\ fetchAndParseContent
              /\ ~InputFault(url, keyword)
      ]_vars

\* a request with a malformed URL has ended with its message
C13_Witness ==
    /\ requestCount > 0
    /\ url = UrlNoScheme
    /\ ~Blank(keyword)
    /\ error.text \in InputErrorTexts
    /\ pending = <<>>

\* the request fails in this step: on its inputs, on an empty body, on a status
\* of 400 or more, or with no response
RequestFails ==
    \/ fetchAndParseContent /\ InputFault(url, keyword)
    \/ FetchEmpty
    \/ \E status \in HttpStatuses : FetchHttpError(status)
    \/ \E code \in NoResponseCodes : FetchNoResponse(code)

\* the message of one of these failures is on display
FailureShown == error # NoError /\ error # RegExpErrorMessage

\* the request is over, with no page presented and no GET in flight
Ended == ~isLoading /\ parsedContent = <<>> /\ pending = <<>>

\* C14: a step in which the request fails leaves a failure message on display
\* and the request over: not loading, no page presented, no GET in flight.
\* While the message is on display, only a new call of fetchAndParseContent
\* changes any of this: nothing is retried.
C14_ErrorsTerminal ==
    [][/\ RequestFails => (FailureShown /\ Ended)'
       /\ (FailureShown /\ ~fetchAndParseContent) =>
              (error' = error /\ Ended /\ Ended')
      ]_vars

\* an upstream failure is on display and the user may analyse again
C14_Witness ==
    /\ error = HttpErrorMessage(500)
    /\ Ended
    /\ ENABLED Analyze

\* a response with a page arrives in this step
PageArrives == \E page \in AppPages : FetchPage(page)

\* the snapshot of the request that ends in this step is still to come
SnapshotAwaited ==
    /\ serpOwner' # requestCount
    /\ serpTimers' # <<>>
    /\ serpTimers'[Len(serpTimers')].request = requestCount

\* the snapshot is written by a step of its own, which leaves the page, the
\* findings and the loading flag as they are
SnapshotApart ==
    (serpResults' # serpResults /\ serpResults' # <<>>) =>
        /\ SerpResolve
        /\ UNCHANGED <<parsedContent, seoSuggestions, isLoading, error>>

\* C15: the step in which a page arrives stores the page and its findings and
\* clears the loading flag while the snapshot is still awaited; the snapshot
\* is written later, by a separate step.
C15_SnapshotNonBlocking ==
    [][/\ PageArrives =>
              /\ Returned'
              /\ ~isLoading'
              /\ SnapshotAwaited
       /\ SnapshotApart
      ]_vars

\* the same of the evaluations that return
C15_WhenReturned ==
    [][/\ (PageArrives /\ Returned') => (~isLoading' /\ SnapshotAwaited)
       /\ SnapshotApart
      ]_vars

\* the url parameter is missing, is not a parseable URL, or is not an http or
\* https address
BadUrlParam(urlParam) == urlParam = <<>> \/ ~HttpAddress(urlParam[1])

\* the url parameter is missing or is not a parseable URL
NoUrlParam(urlParam) ==
    \/ urlParam = <<>>
    \/ Blank(urlParam[1])
    \/ ~ \E i \in 2..(Len(Stripped(urlParam[1])) - 1) : Stripped(urlParam[1])[i] = ":"

\* C16: GET /proxy with the url parameter missing, unparseable or of a scheme
\* other than http and https is answered 400 in the same step, and no upstream
\* request is made.
C16_BadUrlRejected ==
    [][\A origin \in RequestOrigins, urlParam \in UrlParams :
          (GetProxy(origin, urlParam) /\ BadUrlParam(urlParam)) =>
              /\ res' # <<>>
              /\ res'[1].statusCode = 400
              /\ upstream' = <<>>
      ]_vars

\* the same of the parameters that are missing or unparseable, and for the
\* others only that they are answered at once, with no upstream request
C16_MissingOrInvalid ==
    [][\A origin \in RequestOrigins, urlParam \in UrlParams :
          /\ (GetProxy(origin, urlParam) /\ NoUrlParam(urlParam)) =>
                 /\ res' # <<>>
                 /\ res'[1].statusCode = 400
                 /\ upstream' = <<>>
          /\ (GetProxy(origin, urlParam) /\ BadUrlParam(urlParam)) =>
                 /\ res' # <<>>
                 /\ res'[1].statusCode \in {400, 500}
                 /\ upstream' = <<>>
      ]_vars

\* the response carries the four CORS headers
Permissive(response) ==
    /\ response.headers.allowOrigin # <<>>
    /\ response.headers.allowMethods = "GET, OPTIONS"
    /\ response.headers.allowHeaders # ""
    /\ response.headers.allowCredentials = "true"

\* C17: every response carries Access-Control-Allow-Origin, -Methods: GET,
\* OPTIONS, -Headers and -Credentials: true, and every OPTIONS request is
\* answered 204, whatever the origin and the list of allowed origins.
C17_CorsAlways ==
    res # <<>> =>
        /\ Permissive(res[1])
        /\ req[1].method = "OPTIONS" => res[1].statusCode = 204

\* the same of the requests other than OPTIONS
C17_GetResponses ==
    (res # <<>> /\ req[1].method = "GET") => Permissive(res[1])

\* C18: when the upstream request ends without a response (timeout, failed
\* connection, or redirections beyond maxRedirects), the proxy answers 504;
\* when it ends with a response, the proxy answers with the status of that
\* response, whatever it is.
C18_GatewayStatus ==
    [][/\ \A status \in UpstreamStatuses :
              UpstreamResponds(status) => res'[1].statusCode = status
       /\ \A err \in {TimeoutError, ConnectionError, RedirectsError} :
              UpstreamFails(err) => res'[1].statusCode = 504
       /\ (upstream # <<>> /\ upstream' = <<>>) => res' # <<>>
      ]_vars

\* the proxy has answered 504 of its own: the upstream gave no response
C18_Witness ==
    /\ res # <<>>
    /\ req[1].method = "GET"
    /\ res[1].statusCode = 504
    /\ res[1].error = GatewayTimeoutMessage

\* the watermark lies within the stored findings, and the progress bar, shown
\* when there are findings, is at 100 at most
WatermarkBounded ==
    /\ 0 <= completedSuggestions
    /\ completedSuggestions <= Len(seoSuggestions)
    /\ Len(seoSuggestions) > 0 =>
           ProgressValue(completedSuggestions, Len(seoSuggestions)) <= 100

\* C20: in every reachable state 0 <= completedSuggestions <= number of
\* findings stored, so the progress value never exceeds 100.
C20_WatermarkBounded == WatermarkBounded

\* the same up to the start of a second analysis
C20_FirstAnalysis == requestCount <= 1 => WatermarkBounded

====
